---------------------------- MODULE Spec2Model ----------------------------
(***************************************************************************)
(* A model of abstract.shorter.py, the batch extractor that turns a        *)
(* directory of policy JSON files into policies_compact.txt.               *)
(*                                                                         *)
(* Text is modelled as a sequence of tokens.  The tokens "/", "." and      *)
(* "\n" are the single characters the code treats specially (path          *)
(* separator, extension separator, line terminator); every other token is  *)
(* a run of ordinary characters.  String concatenation is \o.              *)
(*                                                                         *)
(* A parsed JSON value is a record [t, s, l, o]: t is the Python type the  *)
(* value loads as ("null", "num", "str", "list", "obj"), s the text of a   *)
(* string or number, l the items of a list, o the key -> value mapping of  *)
(* an object.  Fields a type does not use are empty.                       *)
(***************************************************************************)
EXTENDS Naturals, Sequences, FiniteSets, TLC

VARIABLES
    dirState,            \* the source directory: "ok", "missing", "unreadable"
    entries,             \* the directory's entry names, in listing order
    disk,                \* entry name -> what open() + json.load() yield for it
    outfile,             \* policies_compact.txt: [exists, text]
    outfile_before,      \* policies_compact.txt as it was before the run
    pc,                  \* "discover", "loop", "exited", "done", "crashed"
    exitStatus,          \* "running", "success", "failure"
    json_files,          \* line 14
    idx,                 \* number of loop iterations entered (line 25)
    all_extracted_data,  \* line 23
    extracted_info,      \* line 67: <<>> while unassigned, else <<record>>
    console              \* everything print() has written, in order

vars == <<dirState, entries, disk, outfile, outfile_before, pc, exitStatus,
          json_files, idx, all_extracted_data, extracted_info, console>>

----------------------------------------------------------------------------
(* Bounds of the model.                                                    *)

\* Longest directory listing.
MaxFiles == 2
\* Largest total number of treatment and indication items in one document.
MaxEntries == 2

----------------------------------------------------------------------------
(* JSON values as json.load builds them.                                   *)

NoKeys == [k \in {} |-> <<>>]
Null == [t |-> "null", s |-> <<>>, l |-> <<>>, o |-> NoKeys]
Num(s) == [t |-> "num", s |-> s, l |-> <<>>, o |-> NoKeys]
Str(s) == [t |-> "str", s |-> s, l |-> <<>>, o |-> NoKeys]
List(l) == [t |-> "list", s |-> <<>>, l |-> l, o |-> NoKeys]
Obj(o) == [t |-> "obj", s |-> <<>>, l |-> <<>>, o |-> o]

IsDict(x) == x.t = "obj"
IsList(x) == x.t = "list"
IsStr(x) == x.t = "str"

\* dict.get(key, default) on a dict.
DictGet(d, key, default) == IF key \in DOMAIN d.o THEN d.o[key] ELSE default

\* dict.pop(key, None) on a dict: the key is removed when present.
PopKey(d, key) == Obj([k \in DOMAIN d.o \ {key} |-> d.o[k]])

\* What x.pop(key, None) raises when x is not a dict: list.pop takes at most
\* one argument; str, int and None have no pop attribute.
PopError(x) == IF IsList(x) THEN "TypeError" ELSE "AttributeError"

\* str() of a scalar, as an f-string applies it.
PyStr(x) ==
    CASE x.t = "str" -> x.s
      [] x.t = "num" -> x.s
      [] x.t = "null" -> <<"None">>

----------------------------------------------------------------------------
(* Paths: os.path.join, os.path.basename, os.path.splitext, glob.          *)

source_directory == <<"premera_policies_abstracted">>
PathJoin(a, b) == a \o <<"/">> \o b
file_pattern == PathJoin(source_directory, <<"*", ".", "json">>)
output_filename == <<"policies_compact", ".", "txt">>

\* str.rfind for a one-character token; 0 when absent.
RFind(p, tok) ==
    LET hits == {j \in 1..Len(p) : p[j] = tok}
    IN  IF hits = {} THEN 0 ELSE CHOOSE j \in hits : \A h \in hits : h <= j

BaseName(p) == SubSeq(p, RFind(p, "/") + 1, Len(p))

\* A mis-split that cuts at the first dot of the name instead of the last.
SplitExtFirstDot(p) ==
    LET sepIndex == RFind(p, "/")
        dots == {j \in (sepIndex + 1)..Len(p) : p[j] = "." /\ j > sepIndex + 1}
    IN  IF dots = {} THEN <<p, <<>>>>
        ELSE LET d == CHOOSE j \in dots : \A h \in dots : j <= h
             IN  <<SubSeq(p, 1, d - 1), SubSeq(p, d, Len(p))>>

\* os.path.splitext: split at the last dot after the last separator, unless
\* only dots precede it in the name.
SplitExt(p) ==
    LET sepIndex == RFind(p, "/")
        dotIndex == RFind(p, ".")
    IN  IF /\ dotIndex > sepIndex
           /\ \E j \in (sepIndex + 1)..(dotIndex - 1) : p[j] # "."
        THEN <<SubSeq(p, 1, dotIndex - 1), SubSeq(p, dotIndex, Len(p))>>
        ELSE <<p, <<>>>>

\* fnmatch of a name against a pattern whose "*" token matches any run.
RECURSIVE FnMatch(_, _)
FnMatch(name, pat) ==
    IF pat = <<>> THEN name = <<>>
    ELSE IF Head(pat) = "*"
         THEN \E j \in 0..Len(name) :
                  FnMatch(SubSeq(name, j + 1, Len(name)), Tail(pat))
         ELSE name # <<>> /\ Head(name) = Head(pat)
                          /\ FnMatch(Tail(name), Tail(pat))

IsHidden(name) == name # <<>> /\ Head(name) = "."

\* A directory scan that lets the OSError of a missing or unreadable
\* directory escape.
ListDirRaising(state, names) ==
    IF state = "ok" THEN [err |-> "none", names |-> names]
    ELSE [err |-> "OSError", names |-> <<>>]

\* glob's directory scan: an OSError from os.scandir is swallowed and the
\* scan yields nothing.
ListDir(state, names) ==
    IF state = "ok" THEN [err |-> "none", names |-> names]
    ELSE [err |-> "none", names |-> <<>>]

RECURSIVE SelectMatching(_, _)
SelectMatching(names, pat) ==
    IF names = <<>> THEN <<>>
    ELSE LET rest == SelectMatching(Tail(names), pat)
             n == Head(names)
         IN  IF FnMatch(n, pat) /\ (IsHidden(pat) \/ ~IsHidden(n))
             THEN <<PathJoin(source_directory, n)>> \o rest
             ELSE rest

\* glob.glob(file_pattern): the matching entries, in listing order.
Glob(state, names) ==
    LET scan == ListDir(state, names)
    IN  [err |-> scan.err,
         files |-> SelectMatching(scan.names, BaseName(file_pattern))]

----------------------------------------------------------------------------
(* Exceptions and the except clauses of the per-file try statement.        *)

ExcParent(e) ==
    CASE e = "JSONDecodeError" -> "ValueError"
      [] e = "UnicodeDecodeError" -> "ValueError"
      [] e = "FileNotFoundError" -> "OSError"
      [] e = "PermissionError" -> "OSError"
      [] e \in {"ValueError", "OSError", "AttributeError", "TypeError"}
            -> "Exception"
      [] OTHER -> "BaseException"

RECURSIVE IsInstance(_, _)
IsInstance(e, cls) ==
    \/ e = cls
    \/ e # "BaseException" /\ IsInstance(ExcParent(e), cls)

\* A try statement whose generic clause was left out.
ExceptClausesSpecificOnly == <<"JSONDecodeError", "FileNotFoundError">>

\* Lines 88, 91, 94, in order.
ExceptClauses == <<"JSONDecodeError", "FileNotFoundError", "Exception">>

\* The first clause that matches, 0 when the exception escapes.
HandlerFor(e) ==
    LET hits == {j \in 1..Len(ExceptClauses) : IsInstance(e, ExceptClauses[j])}
    IN  IF hits = {} THEN 0 ELSE CHOOSE j \in hits : \A h \in hits : j <= h

----------------------------------------------------------------------------
(* Console messages: kind, the file named, a text argument, a number.      *)

Msg(kind, file, arg, n) == [k |-> kind, f |-> file, a |-> arg, n |-> n]

\* Handlers that swallow a vanished file without a word.
HandlerMessageSilentNotFound(clause, base_filename, e) ==
    CASE clause = "JSONDecodeError" ->
            <<Msg("SkipInvalidJSON", base_filename, <<e>>, 0)>>
      [] clause = "FileNotFoundError" -> <<>>
      [] clause = "Exception" ->
            <<Msg("SkipUnexpected", base_filename, <<e>>, 0)>>

\* Lines 90, 93, 96.
HandlerMessage(clause, base_filename, e) ==
    CASE clause = "JSONDecodeError" ->
            <<Msg("SkipInvalidJSON", base_filename, <<e>>, 0)>>
      [] clause = "FileNotFoundError" ->
            <<Msg("SkipNotFound", base_filename, <<>>, 0)>>
      [] clause = "Exception" ->
            <<Msg("SkipUnexpected", base_filename, <<e>>, 0)>>

\* A warning that names 'treatments' whichever field it is about.
WarningAlwaysTreatments(base_filename, field) ==
    Msg("Warning", base_filename, <<"treatments">>, 0)

\* Lines 51, 54.
Warning(base_filename, field) == Msg("Warning", base_filename, <<field>>, 0)

----------------------------------------------------------------------------
(* The body of the try statement, lines 31-86.                             *)

EmptyDict == Obj(NoKeys)
EmptyList == List(<<>>)
NA == Str(<<"N/A">>)

\* A stripping step that forgets the id field.
StripEntryKeepsId(t) == PopKey(PopKey(t, "keywords"), "codes")

\* Lines 58-60 (and 62-64): the three pops on one dict entry.
StripEntry(t) == PopKey(PopKey(PopKey(t, "keywords"), "codes"), "id")

\* Lines 57-60 (and 61-64): the loop mutates the entries in order and stops
\* at the first one whose pop raises, leaving the later ones as they were.
RECURSIVE StripLoop(_)
StripLoop(l) ==
    IF l = <<>> THEN [err |-> "none", out |-> <<>>]
    ELSE IF ~IsDict(Head(l)) THEN [err |-> PopError(Head(l)), out |-> l]
    ELSE LET rest == StripLoop(Tail(l))
         IN  [err |-> rest.err, out |-> <<StripEntry(Head(l))>> \o rest.out]

\* Lines 75, 76: the name of each entry, "N/A" for an entry without one.
NameList(l) == [j \in 1..Len(l) |-> DictGet(l[j], "name", NA)]

\* A join that formats every item instead of requiring strings.
JoinRaisesNever(items) == FALSE

\* str.join raises TypeError on the first item that is not a str.
JoinRaises(items) == \E j \in 1..Len(items) : ~IsStr(items[j])

RECURSIVE Join(_, _)
Join(sep, items) ==
    IF items = <<>> THEN <<>>
    ELSE IF Len(items) = 1 THEN PyStr(items[1])
    ELSE PyStr(items[1]) \o sep \o Join(sep, Tail(items))

\* Line 82.
CompactOutput(file_stem, title, treatment_names, indication_names) ==
    file_stem \o <<": ">> \o PyStr(title)
              \o <<" Treatments: [">> \o Join(<<", ">>, treatment_names)
              \o <<"]; Indications: [">> \o Join(<<", ">>, indication_names)
              \o <<"]">>

\* How the try body ended: the exception raised ("none" when it ran to its
\* end or to the continue of line 39), whether the root check of line 36
\* skipped the file, the warnings printed, extracted_info if line 67 was
\* reached, and the compact line if line 82 was.
Outcome(err, notdict, warn, info, line) ==
    [err |-> err, notdict |-> notdict, warn |-> warn, info |-> info,
     line |-> line]

TryBody(file_path, read) ==
    LET base_filename == BaseName(file_path)
    IN
    IF read.err # "none" THEN Outcome(read.err, FALSE, <<>>, <<>>, <<>>)
    ELSE IF ~IsDict(read.data) THEN Outcome("none", TRUE, <<>>, <<>>, <<>>)
    ELSE
    LET data == read.data
        policy_metadata == DictGet(data, "policyMetadata", EmptyDict)
    IN
    IF ~IsDict(policy_metadata)
    THEN Outcome("AttributeError", FALSE, <<>>, <<>>, <<>>)
    ELSE
    LET title == DictGet(policy_metadata, "policyTitle", NA)
        treatments0 == DictGet(data, "treatments", EmptyList)
        indications0 == DictGet(data, "indications", EmptyList)
        warn == (IF ~IsList(treatments0)
                 THEN <<Warning(base_filename, "treatments")>> ELSE <<>>)
             \o (IF ~IsList(indications0)
                 THEN <<Warning(base_filename, "indications")>> ELSE <<>>)
        treatments == IF ~IsList(treatments0) THEN <<>> ELSE treatments0.l
        indications == IF ~IsList(indications0) THEN <<>> ELSE indications0.l
        st == StripLoop(treatments)
        si == StripLoop(indications)
        info == [policyTitle |-> title, sourceFilename |-> base_filename,
                 treatments |-> st.out, indications |-> si.out]
        treatment_names == NameList(st.out)
        indication_names == NameList(si.out)
        file_stem == SplitExt(base_filename)[1]
    IN
    IF st.err # "none" THEN Outcome(st.err, FALSE, warn, <<>>, <<>>)
    ELSE IF si.err # "none" THEN Outcome(si.err, FALSE, warn, <<>>, <<>>)
    ELSE IF JoinRaises(treatment_names) \/ JoinRaises(indication_names)
    THEN Outcome("TypeError", FALSE, warn, <<info>>, <<>>)
    ELSE Outcome("none", FALSE, warn, <<info>>,
                 CompactOutput(file_stem, title, treatment_names,
                               indication_names))

----------------------------------------------------------------------------
(* The three operations of the script.                                     *)

\* An emptiness test that never fires.
NoFilesNever(files) == FALSE

\* Line 16.
NoFiles(files) == files = <<>>

\* Lines 14-20: discovery, and the exit when nothing matches.
DiscoverInputs ==
    /\ pc = "discover"
    /\ LET g == Glob(dirState, entries)
       IN  IF g.err # "none"
           THEN /\ json_files' = <<>>
                /\ console' = console
                /\ pc' = "crashed"
                /\ exitStatus' = "failure"
           ELSE /\ json_files' = g.files
                /\ IF NoFiles(g.files)
                   THEN /\ console' = console
                               \o <<Msg("NoFilesFound", file_pattern, <<>>, 0)>>
                        /\ pc' = "exited"
                        /\ exitStatus' = "success"
                   ELSE /\ console' = console
                               \o <<Msg("Found", <<>>, <<>>, Len(g.files))>>
                        /\ pc' = "loop"
                        /\ exitStatus' = exitStatus
    /\ UNCHANGED <<dirState, entries, disk, outfile, outfile_before, idx,
                   all_extracted_data, extracted_info>>

\* A collection step that puts the newest line first.
AddLineInFront(collected, line) == <<line>> \o collected

\* Line 86.
AddLine(collected, line) == Append(collected, line)

\* Lines 25-98: one iteration of the loop, with its except clauses and the
\* separator.
ProcessOneFile ==
    /\ pc = "loop"
    /\ idx < Len(json_files)
    /\ LET file_path == json_files[idx + 1]
           base_filename == BaseName(file_path)
           r == TryBody(file_path, disk[base_filename])
           h == HandlerFor(r.err)
           processing == <<Msg("Processing", base_filename, <<>>, 0)>>
           separator == <<Msg("Separator", base_filename, <<>>, 0)>>
       IN  /\ idx' = idx + 1
           /\ extracted_info' = IF r.info # <<>> THEN r.info ELSE extracted_info
           /\ IF r.err = "none" /\ r.notdict
              THEN /\ console' = console \o processing
                          \o <<Msg("SkipNotObject", base_filename, <<>>, 0)>>
                          \o separator
                   /\ UNCHANGED <<all_extracted_data, pc, exitStatus>>
              ELSE IF r.err = "none"
              THEN /\ console' = console \o processing \o r.warn
                          \o <<Msg("Compact", base_filename, r.line, 0)>>
                          \o separator
                   /\ all_extracted_data' = AddLine(all_extracted_data, r.line)
                   /\ UNCHANGED <<pc, exitStatus>>
              ELSE IF h = 0
              THEN /\ console' = console \o processing \o r.warn
                   /\ pc' = "crashed"
                   /\ exitStatus' = "failure"
                   /\ UNCHANGED all_extracted_data
              ELSE /\ console' = console \o processing \o r.warn
                          \o HandlerMessage(ExceptClauses[h], base_filename,
                                            r.err)
                          \o separator
                   /\ UNCHANGED <<all_extracted_data, pc, exitStatus>>
    /\ UNCHANGED <<dirState, entries, disk, outfile, outfile_before,
                   json_files>>

\* A finalize that opens the output file whatever was collected.
ShouldWriteAlways(collected) == TRUE

\* Line 105.
ShouldWrite(collected) == collected # <<>>

\* Lines 109-110: the text the writes leave in the file.
RECURSIVE WrittenText(_)
WrittenText(lines) ==
    IF lines = <<>> THEN <<>>
    ELSE Head(lines) \o <<"\n">> \o WrittenText(Tail(lines))

\* Lines 100-111: the tally, then the output file.
Finalize ==
    /\ pc = "loop"
    /\ idx = Len(json_files)
    /\ LET tally == <<Msg("Complete", <<>>, <<>>, Len(all_extracted_data))>>
       IN  IF ShouldWrite(all_extracted_data)
           THEN /\ outfile' = [exists |-> TRUE,
                               text |-> WrittenText(all_extracted_data)]
                /\ console' = console \o tally
                       \o <<Msg("Saved", output_filename, <<>>, 0)>>
           ELSE /\ outfile' = outfile
                /\ console' = console \o tally
    /\ pc' = "done"
    /\ exitStatus' = "success"
    /\ UNCHANGED <<dirState, entries, disk, outfile_before, json_files, idx,
                   all_extracted_data, extracted_info>>

Next == DiscoverInputs \/ ProcessOneFile \/ Finalize

----------------------------------------------------------------------------
(* The inputs: directory listings and file contents.                       *)

SampleName == <<"sample", ".", "json">>
DottedName == <<"a", ".", "b", ".", "json">>
ThirdName == <<"c", ".", "json">>
TextName == <<"notes", ".", "txt">>
HiddenName == <<".", "json">>
Names == {SampleName, DottedName, ThirdName, TextName, HiddenName}

Range(s) == {s[j] : j \in 1..Len(s)}

\* Listings of at most n distinct entries.
Listings(n) ==
    {s \in UNION {[1..k -> Names] : k \in 0..n} :
        \A i, j \in 1..Len(s) : i # j => s[i] # s[j]}

\* Treatment and indication entries.
SurgeryEntry == Obj("name" :> Str(<<"Surgery">>) @@ "id" :> Str(<<"X1">>))
DiabetesEntry == Obj("name" :> Str(<<"Diabetes">>))
AnonEntry ==
    Obj("keywords" :> List(<<Str(<<"k">>)>>) @@ "codes" :> List(<<>>)
        @@ "description" :> Str(<<"d">>))
FullEntry ==
    Obj("name" :> Str(<<"Laser">>) @@ "keywords" :> List(<<>>)
        @@ "codes" :> List(<<Str(<<"c">>)>>) @@ "id" :> Num(<<"3">>)
        @@ "description" :> Str(<<"d">>))
BadNameEntry == Obj("name" :> Num(<<"7">>) @@ "codes" :> List(<<>>))
Items ==
    {SurgeryEntry, DiabetesEntry, AnonEntry, FullEntry, BadNameEntry, Null}

\* Values of a treatments or indications field that are not lists.
NonLists == {Null, Str(<<"x">>), Num(<<"7">>), EmptyDict}

\* A field is <<>> when the key is absent, <<value>> when present.  Its weight
\* is the number of items it holds (1 for a value that is not a list).
FieldsOfWeight(w) ==
    IF w = 0 THEN {<<>>, <<EmptyList>>}
    ELSE {<<List(l)>> : l \in [1..w -> Items]}
         \cup (IF w = 1 THEN {<<x>> : x \in NonLists} ELSE {})

TestPolicy == Str(<<"Test Policy">>)
PolicyMetadataOptions ==
    {<<>>, <<EmptyDict>>, <<Obj("policyTitle" :> TestPolicy)>>,
     <<Obj("policyTitle" :> Num(<<"42">>))>>, <<Obj("policyTitle" :> Null)>>,
     <<Null>>, <<EmptyList>>}

\* The JSON object with the given optional members.
Doc(pm, t, i) ==
    LET keys == (IF pm # <<>> THEN {"policyMetadata"} ELSE {})
                \cup (IF t # <<>> THEN {"treatments"} ELSE {})
                \cup (IF i # <<>> THEN {"indications"} ELSE {})
    IN  Obj([k \in keys |->
                CASE k = "policyMetadata" -> pm[1]
                  [] k = "treatments" -> t[1]
                  [] k = "indications" -> i[1]])

Loaded(data) == [err |-> "none", data |-> data]
Failed(e) == [err |-> e, data |-> Null]

ReadErrors ==
    {"JSONDecodeError", "FileNotFoundError", "PermissionError",
     "UnicodeDecodeError"}
NonObjectRoots == {EmptyList, Str(<<"x">>), Num(<<"7">>), Null}

\* The document of the specification's worked example.
SampleDoc ==
    Doc(<<Obj("policyTitle" :> TestPolicy)>>, <<List(<<SurgeryEntry>>)>>,
        <<List(<<DiabetesEntry>>)>>)

\* Every document within MaxEntries, every failing read, every other root.
RichReads ==
    {Failed(e) : e \in ReadErrors}
    \cup {Loaded(x) : x \in NonObjectRoots}
    \cup UNION {
           {Loaded(Doc(pm, t, i)) :
               pm \in PolicyMetadataOptions,
               t \in FieldsOfWeight(w[1]), i \in FieldsOfWeight(w[2])} :
           w \in {v \in (0..MaxEntries) \X (0..MaxEntries) :
                    v[1] + v[2] <= MaxEntries}}

\* One read of each kind, for runs over several files.
SmallReads ==
    {Failed(e) : e \in ReadErrors}
    \cup {Loaded(x) : x \in NonObjectRoots}
    \cup {Loaded(SampleDoc),
          Loaded(Doc(<<>>, <<>>, <<>>)),
          Loaded(Doc(<<EmptyDict>>, <<Num(<<"7">>)>>,
                     <<List(<<AnonEntry, FullEntry>>)>>)),
          Loaded(Doc(<<Null>>, <<List(<<SurgeryEntry>>)>>, <<>>)),
          Loaded(Doc(<<>>, <<List(<<SurgeryEntry, EmptyList>>)>>, <<>>)),
          Loaded(Doc(<<>>, <<>>, <<List(<<FullEntry, BadNameEntry>>)>>))}

OutfileStates ==
    {[exists |-> FALSE, text |-> <<>>],
     [exists |-> TRUE, text |-> <<"stale", "\n">>]}

IsJsonName(n) == FnMatch(n, BaseName(file_pattern)) /\ ~IsHidden(n)

Start ==
    /\ outfile \in OutfileStates
    /\ outfile_before = outfile
    /\ pc = "discover"
    /\ exitStatus = "running"
    /\ json_files = <<>>
    /\ idx = 0
    /\ all_extracted_data = <<>>
    /\ extracted_info = <<>>
    /\ console = <<>>

\* Runs over listings of up to MaxFiles entries, and over a missing or
\* unreadable directory.
Init ==
    /\ dirState \in {"ok", "missing", "unreadable"}
    /\ entries \in (IF dirState = "missing" THEN {<<>>} ELSE Listings(MaxFiles))
    /\ \E f \in [{n \in Range(entries) : IsJsonName(n) /\ dirState = "ok"}
                    -> SmallReads] :
          disk = [n \in Range(entries) |->
                     IF n \in DOMAIN f THEN f[n] ELSE Loaded(SampleDoc)]
    /\ Start

Spec == Init /\ [][Next]_vars

\* Runs whose first file holds any of the reads within MaxEntries, followed
\* or not by the sample file.
FileInit ==
    /\ dirState = "ok"
    /\ entries \in {<<SampleName>>, <<DottedName, SampleName>>}
    /\ \E r \in RichReads :
          disk = [n \in Range(entries) |->
                     IF n = entries[1] THEN r ELSE Loaded(SampleDoc)]
    /\ Start

FileSpec == FileInit /\ [][Next]_vars

----------------------------------------------------------------------------
(* Vocabulary of the properties, stated from the documents on disk and     *)
(* independently of TryBody.                                               *)

FileAt(k) == BaseName(json_files[k])
ReadAt(k) == disk[FileAt(k)]

SkipKinds == {"SkipInvalidJSON", "SkipNotFound", "SkipUnexpected",
              "SkipNotObject"}

\* Positions of the console messages of the given kinds about a file.
Messages(name, kinds) ==
    {j \in 1..Len(console) : console[j].f = name /\ console[j].k \in kinds}

\* The read fails in the per-file step: no JSON value, or a root that is
\* not an object.
FailsPerFile(read) == read.err # "none" \/ read.data.t # "obj"

Present(doc, key) == key \in DOMAIN doc.o

\* The items of a field: none when it is absent or not a list.
ItemsOf(doc, key) ==
    IF Present(doc, key) /\ doc.o[key].t = "list" THEN doc.o[key].l ELSE <<>>

NotAList(doc, key) == Present(doc, key) /\ doc.o[key].t # "list"

\* Every item is an object whose name, if any, is a string.
ItemsWellTyped(doc, key) ==
    \A j \in 1..Len(ItemsOf(doc, key)) :
        LET e == ItemsOf(doc, key)[j]
        IN  e.t = "obj" /\ ("name" \in DOMAIN e.o => e.o["name"].t = "str")

MetadataWellTyped(doc) ==
    Present(doc, "policyMetadata") => doc.o["policyMetadata"].t = "obj"

WellTyped(doc) ==
    /\ MetadataWellTyped(doc)
    /\ ItemsWellTyped(doc, "treatments")
    /\ ItemsWellTyped(doc, "indications")

Succeeds(read) == ~FailsPerFile(read) /\ WellTyped(read.data)

\* The base filename without its final extension.
StemOf(name) == SubSeq(name, 1, Len(name) - 2)

TitleText(doc) ==
    IF Present(doc, "policyMetadata")
       /\ "policyTitle" \in DOMAIN doc.o["policyMetadata"].o
    THEN PyStr(doc.o["policyMetadata"].o["policyTitle"])
    ELSE <<"N/A">>

NameText(e) == IF "name" \in DOMAIN e.o THEN e.o["name"].s ELSE <<"N/A">>

\* "[n1, n2, ...]" for the items' names; "[]" for none.
RECURSIVE CommaList(_, _)
CommaList(items, k) ==
    IF k = 0 THEN <<>>
    ELSE IF k = 1 THEN NameText(items[1])
    ELSE CommaList(items, k - 1) \o <<", ">> \o NameText(items[k])

\* "<fileStem>: <title> Treatments: [...]; Indications: [...]".
LineFor(name, doc) ==
    LET t == ItemsOf(doc, "treatments")
        i == ItemsOf(doc, "indications")
    IN  StemOf(name) \o <<": ">> \o TitleText(doc) \o <<" Treatments: [">>
            \o CommaList(t, Len(t)) \o <<"]; Indications: [">>
            \o CommaList(i, Len(i)) \o <<"]">>

IsPrefix(a, b) == Len(a) <= Len(b) /\ SubSeq(b, 1, Len(a)) = a

\* Collected lines that begin with the stem of a file.
LinesOf(name) ==
    {j \in 1..Len(all_extracted_data) :
        IsPrefix(StemOf(name) \o <<": ">>, all_extracted_data[j])}

\* The lines of a text: the runs of tokens that the "\n" tokens end.
RECURSIVE SplitLines(_)
SplitLines(text) ==
    IF text = <<>> THEN <<>>
    ELSE LET ends == {j \in 1..Len(text) : text[j] = "\n"}
             nl == IF ends = {} THEN Len(text) + 1
                   ELSE CHOOSE j \in ends : \A h \in ends : j <= h
         IN  <<SubSeq(text, 1, nl - 1)>>
                 \o SplitLines(SubSeq(text, nl + 1, Len(text)))

\* The lines of the first k discovered files that succeed, in order.
RECURSIVE ExpectedLines(_)
ExpectedLines(k) ==
    IF k = 0 THEN <<>>
    ELSE ExpectedLines(k - 1)
            \o (IF Succeeds(ReadAt(k))
                THEN <<LineFor(FileAt(k), ReadAt(k).data)>> ELSE <<>>)

NoFilesFoundMsg == Msg("NoFilesFound", file_pattern, <<>>, 0)
SavedMsgs == {j \in 1..Len(console) : console[j].k = "Saved"}
TallyMsgs == {j \in 1..Len(console) : console[j].k = "Complete"}

----------------------------------------------------------------------------
(* C1 - per-file failures are local.                                        *)

C1_State ==
    /\ pc # "crashed"
    /\ pc = "done" => idx = Len(json_files)
    /\ \A k \in 1..idx :
          /\ Messages(FileAt(k), {"Processing"}) # {}
          /\ FailsPerFile(ReadAt(k)) =>
                /\ Messages(FileAt(k), SkipKinds) # {}
                /\ LinesOf(FileAt(k)) = {}
                /\ Messages(FileAt(k), {"Compact"}) = {}

C1_Step ==
    (idx' = idx + 1 /\ FailsPerFile(ReadAt(idx + 1))) =>
        /\ all_extracted_data' = all_extracted_data
        /\ pc' = "loop"
        /\ exitStatus' = "running"

\* C1: for every discovered file whose read fails (invalid JSON, vanished
\* file, any other I/O or decoding error) or whose JSON root is not an
\* object, a skip diagnostic naming the file is printed, the iteration
\* leaves the collected lines unchanged and no line of that file is ever
\* collected, and the loop stays running: no such file ends the run, and a
\* finished run has iterated over every discovered file.
C1_PerFileErrorsAreLocal == [](C1_State) /\ [][C1_Step]_vars

\* A finished run in which a failing file was followed by a file whose line
\* was collected.
C1_Witness ==
    /\ pc = "done"
    /\ \E k \in 1..(idx - 1) :
          /\ FailsPerFile(ReadAt(k))
          /\ Messages(FileAt(k), SkipKinds) # {}
          /\ LinesOf(FileAt(k + 1)) # {}

----------------------------------------------------------------------------
(* C2 - every file is classified exactly once.                              *)

ErrorCount == Cardinality({j \in 1..Len(console) : console[j].k \in SkipKinds})
SuccessCount == Len(all_extracted_data)

\* C2: at every point of the loop the number of skip diagnostics plus the
\* number of collected lines equals the number of files iterated so far,
\* each iterated file having exactly one skip diagnostic or exactly one
\* compact line, never both; when the run completes the two counts sum to
\* the number of discovered files, and the tally reports the collected
\* lines.
C2_CountsSumToFiles ==
    pc \in {"loop", "done"} =>
        /\ ErrorCount + SuccessCount = idx
        /\ \A k \in 1..idx :
              Cardinality(Messages(FileAt(k), SkipKinds))
                  + Cardinality(LinesOf(FileAt(k))) = 1
        /\ pc = "done" =>
              /\ idx = Len(json_files)
              /\ ErrorCount + SuccessCount = Len(json_files)
              /\ \A j \in TallyMsgs : console[j].n = SuccessCount

\* A finished run with both a skipped and a successfully processed file.
C2_Witness ==
    /\ pc = "done"
    /\ ErrorCount >= 1
    /\ SuccessCount >= 1
    /\ ErrorCount + SuccessCount = Len(json_files)

----------------------------------------------------------------------------
(* C3 - the output is the successful files' lines, in discovery order.      *)

C3_State ==
    /\ all_extracted_data = ExpectedLines(idx)
    /\ (pc = "done" /\ ExpectedLines(Len(json_files)) # <<>>) =>
          /\ outfile.exists
          /\ SplitLines(outfile.text) = ExpectedLines(Len(json_files))

C3_AppendOnly == IsPrefix(all_extracted_data, all_extracted_data')

\* C3: the collected sequence always holds exactly the compact lines of the
\* successfully processed files among those iterated, in discovery order,
\* every step leaves what was collected before as a prefix of what is
\* collected after, and the lines of the written policies_compact.txt are
\* those of the successful files, one each and in that order.
C3_OutputInDiscoveryOrder == [](C3_State) /\ [][C3_AppendOnly]_vars

\* A written file of two different lines, the first discovered file's first.
C3_Witness ==
    /\ pc = "done"
    /\ Len(json_files) >= 2
    /\ Succeeds(ReadAt(1))
    /\ Succeeds(ReadAt(Len(json_files)))
    /\ Len(SplitLines(outfile.text)) >= 2
    /\ SplitLines(outfile.text)[1] = LineFor(FileAt(1), ReadAt(1).data)
    /\ SplitLines(outfile.text)[1] # SplitLines(outfile.text)[2]

----------------------------------------------------------------------------
(* C4 - the format of the compact line.                                     *)

SampleLine ==
    <<"sample", ": ", "Test Policy", " Treatments: [", "Surgery",
      "]; Indications: [", "Diabetes", "]">>

\* C4: every successfully processed file has exactly one collected line, and
\* it is "<fileStem>: <title> Treatments: [..]; Indications: [..]" with the
\* stem the base filename without its final extension, the title
\* policyMetadata.policyTitle or "N/A" when either is absent, and the names
\* of the entries (or "N/A" for an entry without one) in their order, joined
\* with ", "; sample.json holding the worked example gives exactly
\* "sample: Test Policy Treatments: [Surgery]; Indications: [Diabetes]".
C4_CompactLineFormat ==
    \A k \in 1..idx :
        /\ Succeeds(ReadAt(k)) =>
              /\ Cardinality(LinesOf(FileAt(k))) = 1
              /\ \A j \in LinesOf(FileAt(k)) :
                    all_extracted_data[j] = LineFor(FileAt(k), ReadAt(k).data)
        /\ (FileAt(k) = SampleName /\ ReadAt(k) = Loaded(SampleDoc)) =>
              \E j \in 1..Len(all_extracted_data) :
                  all_extracted_data[j] = SampleLine

\* a.b.json with a title, a named and an unnamed treatment and no
\* indications, followed by the worked example.
C4_Witness ==
    /\ pc = "done"
    /\ all_extracted_data =
          << <<"a", ".", "b", ": ", "Test Policy", " Treatments: [",
               "Surgery", ", ", "N/A", "]; Indications: [", "]">>,
             SampleLine >>

----------------------------------------------------------------------------
(* C5 - field stripping.                                                    *)

StripKeys == {"keywords", "codes", "id"}

\* The record's entries are the document's, less the three keys.
StrippedFrom(kept, original) ==
    /\ Len(kept) = Len(original)
    /\ \A j \in 1..Len(kept) :
          /\ DOMAIN kept[j].o \cap StripKeys = {}
          /\ DOMAIN kept[j].o = DOMAIN original[j].o \ StripKeys
          /\ \A key \in DOMAIN kept[j].o : kept[j].o[key] = original[j].o[key]

\* C5: once the extracted record of a file is built, none of its treatment
\* or indication entries has a keywords, codes or id key, whichever of them
\* the entry had in the file, every other key of every entry is as in the
\* file, and stripping the record's entries again raises nothing and
\* changes nothing.
C5_StrippingRemovesAndIsIdempotent ==
    extracted_info # <<>> =>
        LET rec == extracted_info[1]
            doc == disk[rec.sourceFilename].data
        IN  /\ StrippedFrom(rec.treatments, ItemsOf(doc, "treatments"))
            /\ StrippedFrom(rec.indications, ItemsOf(doc, "indications"))
            /\ StripLoop(rec.treatments)
                   = [err |-> "none", out |-> rec.treatments]
            /\ StripLoop(rec.indications)
                   = [err |-> "none", out |-> rec.indications]

\* A record holding an entry that had all three keys in the file and kept
\* exactly its name and description, beside an entry that had none of them.
C5_Witness ==
    /\ extracted_info # <<>>
    /\ LET rec == extracted_info[1]
           doc == disk[rec.sourceFilename].data
       IN  /\ ItemsOf(doc, "treatments") = <<FullEntry>>
           /\ ItemsOf(doc, "indications") = <<DiabetesEntry>>
           /\ DOMAIN rec.treatments[1].o = {"name", "description"}
           /\ rec.indications = <<DiabetesEntry>>
    /\ LinesOf(extracted_info[1].sourceFilename) # {}

----------------------------------------------------------------------------
(* C6 - the output file is written exactly when something was collected.    *)

\* C6: until finalize the output file is as it was before the run and no
\* save message is printed; after finalize, if lines were collected the file
\* exists and its lines are exactly the collected ones (whatever it held
\* before) and the save message is the last thing printed, and if none were
\* collected the file is as it was before the run and no save message is
\* printed.
C6_WrittenIffCollected ==
    /\ pc # "done" => (outfile = outfile_before /\ SavedMsgs = {})
    /\ (pc = "done" /\ all_extracted_data # <<>>) =>
          /\ outfile.exists
          /\ SplitLines(outfile.text) = all_extracted_data
          /\ SavedMsgs = {Len(console)}
          /\ console[Len(console)].f = output_filename
    /\ (pc = "done" /\ all_extracted_data = <<>>) =>
          /\ outfile = outfile_before
          /\ SavedMsgs = {}

\* A finished run over two files, both skipped, that left a stale output
\* file as it was.
C6_Witness ==
    /\ pc = "done"
    /\ idx = 2
    /\ all_extracted_data = <<>>
    /\ outfile_before.exists
    /\ outfile = outfile_before

----------------------------------------------------------------------------
(* C7 - zero matching files.                                                *)

\* A name that *.json selects: it ends in ".json" and is not a dot file.
EndsInJson(n) ==
    Len(n) >= 3 /\ n[Len(n)] = "json" /\ n[Len(n) - 1] = "." /\ n[1] # "."

\* C7: when the directory can be listed and none of its entries matches
\* *.json, the run prints the no-files-found message and nothing else, ends
\* successfully without entering the loop or printing a tally, and leaves
\* the output file as it was.
C7_NoMatchingFiles ==
    (pc # "discover" /\ dirState = "ok"
        /\ \A j \in 1..Len(entries) : ~EndsInJson(entries[j])) =>
        /\ pc = "exited"
        /\ exitStatus = "success"
        /\ console = <<NoFilesFoundMsg>>
        /\ idx = 0
        /\ all_extracted_data = <<>>
        /\ outfile = outfile_before

\* A directory holding only notes.txt and the dot file .json, beside a stale
\* output file.
C7_Witness ==
    /\ pc = "exited"
    /\ dirState = "ok"
    /\ Range(entries) = {TextName, HiddenName}
    /\ outfile_before.exists
    /\ console = <<NoFilesFoundMsg>>

----------------------------------------------------------------------------
(* C8 - a source directory that is missing or cannot be listed.             *)

----------------------------------------------------------------------------
(* C9 - a treatments or indications field that is not a list.               *)

Fields == {"treatments", "indications"}
OtherField(key) == IF key = "treatments" THEN "indications" ELSE "treatments"

\* Positions of the warnings that name the file and the field.
WarningsFor(name, key) ==
    {j \in 1..Len(console) :
        console[j].k = "Warning" /\ console[j].f = name
                                 /\ console[j].a = <<key>>}

\* The file has exactly one collected line, the one that renders the field
\* that is not a list as "[]" and the other field as usual.
OneLineCollected(k) ==
    /\ Cardinality(LinesOf(FileAt(k))) = 1
    /\ \A j \in LinesOf(FileAt(k)) :
          all_extracted_data[j] = LineFor(FileAt(k), ReadAt(k).data)
    /\ Messages(FileAt(k), SkipKinds) = {}

SkippedAsUnexpected(k) ==
    /\ LinesOf(FileAt(k)) = {}
    /\ Cardinality(Messages(FileAt(k), {"SkipUnexpected"})) = 1

\* The record built for the file, if it is the current one, holds no entry
\* for the field.
CoercedToEmpty(k, key) ==
    (extracted_info # <<>> /\ extracted_info[1].sourceFilename = FileAt(k)) =>
        extracted_info[1][key] = <<>>

\* C9 as stated: for every file whose root is an object and whose treatments
\* (or indications) field is present and not a list, a warning naming the
\* file and the field is printed, the field counts as empty, and the file is
\* successfully processed with exactly one compact line that renders the
\* field as "[]".
C9_NonListFieldAlwaysSucceeds ==
    \A k \in 1..idx : \A key \in Fields :
        (~FailsPerFile(ReadAt(k)) /\ NotAList(ReadAt(k).data, key)) =>
            /\ Cardinality(WarningsFor(FileAt(k), key)) = 1
            /\ CoercedToEmpty(k, key)
            /\ OneLineCollected(k)

\* C9, amended: for a file whose root is an object, whose policyMetadata is
\* absent or an object and whose treatments (or indications) field is
\* present and not a list, exactly one warning naming the file and the field
\* is printed and the field counts as empty; the file is then successfully
\* processed with exactly one compact line (the field rendered as "[]", the
\* other field as usual) when every item of the other field is an object
\* whose name is absent or a string, and is skipped with the unexpected-error
\* diagnostic and no line otherwise.  When policyMetadata is present and not
\* an object the file is skipped with that diagnostic before any warning.
C9_NonListFieldCoerced ==
    \A k \in 1..idx : \A key \in Fields :
        LET doc == ReadAt(k).data
        IN  (~FailsPerFile(ReadAt(k)) /\ NotAList(doc, key)) =>
               IF MetadataWellTyped(doc)
               THEN /\ Cardinality(WarningsFor(FileAt(k), key)) = 1
                    /\ CoercedToEmpty(k, key)
                    /\ IF ItemsWellTyped(doc, OtherField(key))
                       THEN OneLineCollected(k)
                       ELSE SkippedAsUnexpected(k)
               ELSE /\ WarningsFor(FileAt(k), key) = {}
                    /\ SkippedAsUnexpected(k)

\* a.b.json whose treatments is an object and whose indications hold one
\* named entry: one warning, and the line with "Treatments: []".
C9_Witness ==
    /\ idx >= 1
    /\ FileAt(1) = DottedName
    /\ ReadAt(1) = Loaded(Doc(<<>>, <<EmptyDict>>, <<List(<<DiabetesEntry>>)>>))
    /\ Cardinality(WarningsFor(DottedName, "treatments")) = 1
    /\ all_extracted_data[1] =
          <<"a", ".", "b", ": ", "N/A", " Treatments: [",
            "]; Indications: [", "Diabetes", "]">>

----------------------------------------------------------------------------
(* C10 - wrongly typed inner values.                                        *)

\* policyMetadata is present and not an object, or an item of treatments or
\* indications is not an object, or an entry's name is not a string.
BadlyTyped(doc) ==
    \/ Present(doc, "policyMetadata") /\ doc.o["policyMetadata"].t # "obj"
    \/ \E key \in Fields : \E j \in 1..Len(ItemsOf(doc, key)) :
          LET e == ItemsOf(doc, key)[j]
          IN  \/ e.t # "obj"
              \/ "name" \in DOMAIN e.o /\ e.o["name"].t # "str"

\* C10: a file whose root is an object but that holds a wrongly typed inner
\* value is skipped as a whole: exactly one unexpected-error diagnostic
\* names it, no line of it (whole or partial) is collected or printed, the
\* run does not end there, and a finished run has gone on over every
\* discovered file.
C10_BadInnerTypeSkipsFile ==
    /\ pc # "crashed"
    /\ pc = "done" => idx = Len(json_files)
    /\ \A k \in 1..idx :
          (~FailsPerFile(ReadAt(k)) /\ BadlyTyped(ReadAt(k).data)) =>
              /\ Cardinality(Messages(FileAt(k), {"SkipUnexpected"})) = 1
              /\ Messages(FileAt(k), SkipKinds \ {"SkipUnexpected"}) = {}
              /\ Messages(FileAt(k), {"Compact"}) = {}
              /\ LinesOf(FileAt(k)) = {}
              /\ Len(all_extracted_data) <= idx - 1

\* a.b.json whose second treatment is null, after a first one that was
\* stripped, is skipped; sample.json after it is processed.
C10_Witness ==
    /\ pc = "done"
    /\ idx = 2
    /\ ReadAt(1) = Loaded(Doc(<<>>, <<List(<<SurgeryEntry, Null>>)>>, <<>>))
    /\ Cardinality(Messages(FileAt(1), {"SkipUnexpected"})) = 1
    /\ all_extracted_data = <<SampleLine>>
    /\ outfile.text = SampleLine \o <<"\n">>

=============================================================================
